---- MODULE Spec2Model ----
(***************************************************************************)
(* Model of pdf_converter.py: a PDF is rendered page by page in a process  *)
(* pool, the results are collected in completion order, sorted by page     *)
(* number, written as page_NNN.<ext> files and optionally zipped.          *)
(*                                                                         *)
(* A behaviour is one document and one command line (chosen in Init), run  *)
(* one or more times over the same filesystem.  The environment may kill a *)
(* worker process and may fail a file or archive write at any time.        *)
(***************************************************************************)
EXTENDS Integers, Sequences, FiniteSets, TLC

\* ---------------------------------------------------------------- bounds
MaxPages == 3
MaxWorkers == 2

\* ------------------------------------------------------- program constants
MinQuality == 1
MaxQuality == 100
PadWidth == 3

\* -------------------------------------------------------------- input sets
\* -q values around both ends of the accepted range
QualityValues == {MinQuality - 1, MinQuality, MaxQuality, MaxQuality + 1}
\* argparse choices of -f
FormatValues == {"jpeg", "png"}
\* what convert_page does on one page: returns an image, raises an exception
\* with a message, or raises one whose str() is empty (MemoryError())
RenderOutcomes == {"ok", "raises", "raises_empty"}

None == "None"
Pages(n) == 0 .. (n - 1)

\* ------------------------------------------------------------ string helpers
\* variant: the format is compared as it was given
AsGiven(s) == s
\* str.lower() on the format values that can reach it
Lower(s) == CASE s = "PNG"  -> "png"
              [] s = "Png"  -> "png"
              [] s = "JPEG" -> "jpeg"
              [] OTHER      -> s

RECURSIVE Digits(_)
\* decimal digits of a natural number, most significant first
Digits(n) == IF n < 10 THEN <<n>> ELSE Append(Digits(n \div 10), n % 10)

RECURSIVE ZeroPad(_, _)
\* format spec 0<w>d : pad with zeros on the left up to width w
ZeroPad(d, w) == IF Len(d) >= w THEN d ELSE ZeroPad(<<0>> \o d, w)

\* variant: the page number is cut to its last three digits
FileNameThreeDigits(page_num, ext) ==
    <<"page_", ZeroPad(Digits((page_num + 1) % 1000), PadWidth), ext>>
\* variant: the page number is not made 1-based
FileNameZeroBased(page_num, ext) == <<"page_", ZeroPad(Digits(page_num), PadWidth), ext>>
\* f"page_{page_num + 1:03d}.{ext}"
FileName(page_num, ext) == <<"page_", ZeroPad(Digits(page_num + 1), PadWidth), ext>>

\* output_dir / filename, and Path.name
JoinPath(dir, filename) == <<dir, filename>>
BaseName(path) == path[2]

\* ------------------------------------------------------------- the renderer
\* encoded bytes of a page: PNG ignores the quality, JPEG depends on it
PngBytes(page_num) == <<"png", page_num>>
JpegBytes(page_num, q) == <<"jpeg", page_num, q>>
\* content of a file that was opened 'wb' and never written to
EmptyBytes == <<"empty">>

\* convert_page: (page_num, img_data, ext, error)
ConvertPage(task, outcome) ==
    LET page_num   == task[1]
        img_format == task[2]
        q          == task[3]
    IN  CASE outcome = "ok" ->
               IF Lower(img_format) = "png"
               THEN <<page_num, PngBytes(page_num), "png", None>>
               ELSE <<page_num, JpegBytes(page_num, q), "jpg", None>>
          [] outcome = "raises"       -> <<page_num, None, None, "render error">>
          [] outcome = "raises_empty" -> <<page_num, None, None, "">>

\* the truth value Python gives the error field: None and '' are false
Truthy(error) == error \notin {None, ""}

\* ------------------------------------------------------------ the collector
\* variant: failed results are kept as well
CollectAll(results, r) == Append(results, <<r[1], r[2], r[3]>>)
\* if error: print(...)  else: results.append((page_num, img_data, ext))
CollectResult(results, r) ==
    IF Truthy(r[4]) THEN results ELSE Append(results, <<r[1], r[2], r[3]>>)

\* the page number printed with a failure
ReportFailure(reported, r) ==
    IF Truthy(r[4]) THEN reported \cup {r[1] + 1} ELSE reported

\* ------------------------------------------------------------ the sequencer
\* insert x behind every entry whose key is not larger (the sort is stable)
RECURSIVE InsertByPage(_, _)
InsertByPage(x, s) ==
    IF s = <<>> THEN <<x>>
    ELSE IF x[1] < s[1][1] THEN <<x>> \o s
    ELSE <<s[1]>> \o InsertByPage(x, Tail(s))

\* variant: the list is left in completion order
Unsorted(s) == s
RECURSIVE SortByPage(_)
\* results.sort(key=lambda x: x[0])
SortByPage(s) ==
    IF s = <<>> THEN <<>>
    ELSE InsertByPage(s[Len(s)], SortByPage(SubSeq(s, 1, Len(s) - 1)))

\* --------------------------------------------------------------- the writer
\* ext = results[0][2] if results else 'jpg'
ChooseExt(results) == IF results # <<>> THEN results[1][3] ELSE "jpg"

\* the directory after open(filepath, 'wb') + f.write(img_data)
WriteFile(files, name, data) ==
    [n \in DOMAIN files \cup {name} |-> IF n = name THEN data ELSE files[n]]

\* ------------------------------------------------------------- the archiver
\* variant: the page files are removed once they are in the archive
RemoveOriginals(files, saved) ==
    [n \in DOMAIN files \ {saved[j][2] : j \in 1 .. Len(saved)} |-> files[n]]
\* the directory after the archive is written: the code only prints that the
\* image folder is kept and removes nothing
KeepOriginals(files, saved) == files

\* variant: the archive is made even when nothing was saved
ArchiveAlways(create_zip, saved_files) == create_zip
\* if create_zip and saved_files
ShouldArchive(create_zip, saved_files) == create_zip /\ saved_files # <<>>

NoArchive == [exists |-> FALSE, members |-> <<>>]
\* variant: mode 'a', an existing archive keeps its members
OpenZipAppend(archive) == [exists |-> TRUE, members |-> archive.members]
\* zipfile.ZipFile(zip_path, 'w'): an existing archive is truncated
OpenZip(archive) == [exists |-> TRUE, members |-> <<>>]

\* variant: the member is named by the whole path
ArcNameFullPath(file) == file
\* the arcname argument of zipf.write: file.name
ArcName(file) == BaseName(file)

\* zipf.write(file, file.name): the member holds what the file holds on disk
ZipMember(file, files) == <<ArcName(file), files[BaseName(file)]>>

\* --------------------------------------------------------------------- main
\* variant: the lower limit is off by one
QualityBelowZero(q) == q < MinQuality - 1 \/ q > MaxQuality
\* if args.quality < 1 or args.quality > 100
QualityRejected(q) == q < MinQuality \/ q > MaxQuality

\* the value convert_pdf_to_images returns once the document was opened
\* variant: success only if a page file was saved
ReturnIfSaved(saved_files) == saved_files # <<>>
ReturnValue(saved_files) == TRUE

\* sys.exit(0 if success else 1)
ExitCode(success) == IF success THEN 0 ELSE 1
\* exit status of the interpreter after an uncaught exception: the status
\* main uses for a failed conversion
UncaughtExitCode == ExitCode(FALSE)

\* ==================================================================== state
VARIABLES
    \* the document and the command line (fixed during a behaviour)
    pdf_exists,     \* pdf_path.exists()
    pdf_openable,   \* fitz.open(pdf_path) succeeds in the parent process
    doc_pages,      \* len(doc)
    render,         \* page index -> what convert_page does on that page
    img_format, quality, create_zip, num_workers,
    \* the filesystem
    dir_exists,     \* the output directory exists
    dir,            \* file name -> content, the files of the output directory
    zip,            \* the archive beside the source file
    \* one run of the program
    pc,             \* position of the parent process
    handles,        \* pages whose task holds an open document in a worker
    num_pages,      \* local of convert_pdf_to_images
    future,         \* page index -> state of the future submitted for it
    results,        \* local list results
    reported,       \* page numbers printed as failed
    ext,            \* local ext
    saved_files,    \* local list saved_files
    returned,       \* value convert_pdf_to_images returned, None before
    raised,         \* exception that left convert_pdf_to_images, None if none
    exit_code,      \* exit status of the process, -1 while it runs
    \* history
    arrival,        \* results as the sort received it
    start_dir,      \* dir when the current run started
    start_zip,      \* zip when the current run started
    rerun           \* the current run follows another run of the same command

config == <<pdf_exists, pdf_openable, doc_pages, render, img_format, quality,
            create_zip, num_workers>>
fs     == <<dir_exists, dir, zip>>
locals == <<num_pages, future, results, reported, ext, saved_files>>
hist   == <<arrival, start_dir, start_zip, rerun>>
vars   == <<config, fs, pc, handles, locals, returned, raised, exit_code, hist>>

\* exceptions raised by the environment rather than by the program's own logic
EnvFaults == {"BrokenProcessPool", "OSError"}

OutputDir == "out"
NoFiles == [n \in {} |-> EmptyBytes]
\* a directory and an archive left by an earlier conversion of another
\* document, and a file that is no page file
StaleName == <<"page_", <<0, 0, 1>>, "jpg">>
StaleSecond == <<"page_", <<0, 0, 2>>, "jpg">>
OtherName == <<"notes", <<>>, "txt">>
UsedFiles ==
    (StaleName :> <<"old">>) @@ (StaleSecond :> <<"old">>) @@ (OtherName :> <<"text">>)
UsedArchive == [exists |-> TRUE, members |-> << <<StaleName, <<"old">>>> >>]

NoFutures == [i \in {} |-> "queued"]

Init ==
    /\ pdf_exists \in BOOLEAN
    /\ pdf_openable \in BOOLEAN
    /\ doc_pages \in 0 .. MaxPages
    /\ render \in [Pages(doc_pages) -> RenderOutcomes]
    /\ img_format \in FormatValues
    /\ quality \in QualityValues
    /\ create_zip \in BOOLEAN
    /\ num_workers \in 1 .. MaxWorkers
    /\ \/ dir_exists = FALSE /\ dir = NoFiles /\ zip = NoArchive
       \/ dir_exists = TRUE /\ dir = UsedFiles /\ zip = UsedArchive
    /\ pc = "Start"
    /\ handles = {}
    /\ num_pages = 0
    /\ future = NoFutures
    /\ results = <<>>
    /\ reported = {}
    /\ ext = None
    /\ saved_files = <<>>
    /\ returned = None
    /\ raised = None
    /\ exit_code = -1
    /\ arrival = <<>>
    /\ start_dir = dir
    /\ start_zip = zip
    /\ rerun = FALSE

\* ================================================================== actions
\* doc = fitz.open(pdf_path) in the worker that runs the task of page i
OpenDocument(open, i) == open \cup {i}

\* doc.close()
CloseDocument(open, i) == open \ {i}

\* the open documents when convert_page returns: the success path closes the
\* document; the except path does not, and the document is released when the
\* interpreter finalises the unreferenced object, at the return or later
HandlesAtReturn(open, i, outcome) ==
    IF outcome = "ok"
    THEN {CloseDocument(open, i)}
    ELSE {CloseDocument(open, i), open}

\* the task tuple of a page (the path and the resolution do not vary here)
Task(i) == <<i, img_format, quality>>

Running == {i \in DOMAIN future : future[i] = "running"}
Queued  == {i \in DOMAIN future : future[i] = "queued"}
\* variant: the loop ends as soon as no task waits for a worker
NoneQueued == Queued = {}
AllCollected == {i \in DOMAIN future : future[i] # "collected"} = {}
PoolOpen == pc \in {"Dispatched", "Collecting"}

RejectExitCode == 1

\* main: parse the arguments and validate the quality
ValidateQuality ==
    /\ pc = "Start"
    /\ IF QualityRejected(quality)
       THEN pc' = "Exit" /\ exit_code' = RejectExitCode
       ELSE pc' = "Init" /\ UNCHANGED exit_code
    /\ UNCHANGED <<handles, config, fs, locals, returned, raised, hist>>

\* convert_pdf_to_images: existence check, then output_dir.mkdir(exist_ok=True)
CheckAndMkdir ==
    /\ pc = "Init"
    /\ IF ~pdf_exists
       THEN pc' = "Failed" /\ returned' = "False" /\ UNCHANGED dir_exists
       ELSE pc' = "Opening" /\ dir_exists' = TRUE /\ UNCHANGED returned
    /\ UNCHANGED <<handles, config, dir, zip, locals, raised, exit_code, hist>>

\* variant: the page count is taken without noticing that the open failed
LoadMetadataUnchecked ==
    /\ pc = "Opening"
    /\ pc' = "MetadataLoaded"
    /\ num_pages' = doc_pages
    /\ UNCHANGED <<handles, config, fs, future, results, reported, ext, saved_files,
                   returned, raised, exit_code, hist>>

\* open the document for its page count
LoadMetadata ==
    /\ pc = "Opening"
    /\ IF pdf_openable
       THEN pc' = "MetadataLoaded" /\ num_pages' = doc_pages /\ UNCHANGED returned
       ELSE pc' = "Failed" /\ returned' = "False" /\ UNCHANGED num_pages
    /\ UNCHANGED <<handles, config, fs, future, results, reported, ext, saved_files,
                   raised, exit_code, hist>>

\* build the task list and submit every task to the pool
Dispatch ==
    /\ pc = "MetadataLoaded"
    /\ future' = [i \in Pages(num_pages) |-> "queued"]
    /\ results' = <<>>
    /\ pc' = "Dispatched"
    /\ UNCHANGED <<handles, config, fs, num_pages, reported, ext, saved_files,
                   returned, raised, exit_code, hist>>

\* the parent enters the as_completed loop
StartCollect ==
    /\ pc = "Dispatched"
    /\ pc' = "Collecting"
    /\ UNCHANGED <<handles, config, fs, locals, returned, raised, exit_code, hist>>

\* a free worker takes the oldest queued task
WorkerStart(i) ==
    /\ PoolOpen
    /\ i \in Queued
    /\ \A j \in Queued : i <= j
    /\ Cardinality(Running) < num_workers
    /\ future' = [future EXCEPT ![i] = "running"]
    /\ handles' = OpenDocument(handles, i)
    /\ UNCHANGED <<config, fs, pc, num_pages, results, reported, ext,
                   saved_files, returned, raised, exit_code, hist>>

\* convert_page returns (it catches what the renderer raises)
WorkerReturn(i) ==
    /\ PoolOpen
    /\ i \in Running
    /\ future' = [future EXCEPT ![i] = "done"]
    /\ handles' \in HandlesAtReturn(handles, i, render[i])
    /\ UNCHANGED <<config, fs, pc, num_pages, results, reported, ext,
                   saved_files, returned, raised, exit_code, hist>>

\* the worker process of a running task is killed: the pool is broken, it
\* terminates its other workers and every future without a result fails with
\* BrokenProcessPool
WorkerDie(i) ==
    /\ PoolOpen
    /\ i \in Running
    /\ future' = [j \in DOMAIN future |->
                    IF future[j] \in {"queued", "running"} THEN "broken"
                    ELSE future[j]]
    /\ handles' = {}
    /\ UNCHANGED <<config, fs, pc, num_pages, results, reported, ext,
                   saved_files, returned, raised, exit_code, hist>>

\* one iteration of the as_completed loop on a future that has a result
Collect(i) ==
    /\ pc = "Collecting"
    /\ i \in DOMAIN future
    /\ future[i] = "done"
    /\ LET r == ConvertPage(Task(i), render[i])
       IN  /\ results' = CollectResult(results, r)
           /\ reported' = ReportFailure(reported, r)
    /\ future' = [future EXCEPT ![i] = "collected"]
    /\ UNCHANGED <<handles, config, fs, pc, num_pages, ext, saved_files,
                   returned, raised, exit_code, hist>>

\* future.result() re-raises the exception of a broken future
CollectBroken(i) ==
    /\ pc = "Collecting"
    /\ i \in DOMAIN future
    /\ future[i] = "broken"
    /\ raised' = "BrokenProcessPool"
    /\ pc' = "Crashed"
    /\ UNCHANGED <<handles, config, fs, locals, returned, exit_code, hist>>

\* the loop is exhausted, the pool shuts down, results.sort(...)
Sequence ==
    /\ pc = "Collecting"
    /\ AllCollected
    /\ arrival' = results
    /\ results' = SortByPage(results)
    /\ pc' = "Sequenced"
    /\ handles' = {}
    /\ UNCHANGED <<config, fs, num_pages, future, reported, ext, saved_files,
                   returned, raised, exit_code, start_dir, start_zip, rerun>>

\* saved_files = [] and the choice of the extension
BeginWrite ==
    /\ pc = "Sequenced"
    /\ saved_files' = <<>>
    /\ ext' = ChooseExt(results)
    /\ arrival' = <<>>
    /\ pc' = "Writing"
    /\ UNCHANGED <<handles, config, fs, num_pages, future, results, reported,
                   returned, raised, exit_code, start_dir, start_zip, rerun>>

\* the entry the write loop is at: every completed iteration appended one path
NextEntry == results[Len(saved_files) + 1]

\* one iteration of the write loop
WritePage ==
    /\ pc = "Writing"
    /\ Len(saved_files) < Len(results)
    /\ LET page_num == NextEntry[1]
           img_data == NextEntry[2]
           filename == FileName(page_num, ext)
           filepath == JoinPath(OutputDir, filename)
       IN  IF img_data = None
           THEN \* open() creates the file, f.write(None) raises TypeError
                /\ dir' = WriteFile(dir, filename, EmptyBytes)
                /\ raised' = "TypeError"
                /\ pc' = "Crashed"
                /\ UNCHANGED saved_files
           ELSE /\ dir' = WriteFile(dir, filename, img_data)
                /\ saved_files' = Append(saved_files, filepath)
                /\ UNCHANGED <<raised, pc>>
    /\ UNCHANGED <<handles, config, dir_exists, zip, num_pages, future, results, reported,
                   ext, returned, exit_code, hist>>

\* the environment fails the write of a page file: open() raises and the file
\* is untouched, or f.write raises and the file is left truncated
WriteFails ==
    /\ pc = "Writing"
    /\ Len(saved_files) < Len(results)
    /\ \/ UNCHANGED dir
       \/ dir' = WriteFile(dir, FileName(NextEntry[1], ext), EmptyBytes)
    /\ raised' = "OSError"
    /\ pc' = "Crashed"
    /\ UNCHANGED <<handles, config, dir_exists, zip, locals, returned, exit_code, hist>>

\* the write loop is exhausted; the summary is printed
FinishWrite ==
    /\ pc = "Writing"
    /\ Len(saved_files) = Len(results)
    /\ pc' = "Written"
    /\ UNCHANGED <<handles, config, fs, locals, returned, raised, exit_code, hist>>

\* the members zipf.write adds for the first k saved files
ArchiveMembers(k, files) ==
    [j \in 1 .. k |-> ZipMember(saved_files[j], files)]

\* the archive is opened for writing and every saved file is added in order
CreateArchive ==
    /\ pc = "Written"
    /\ ShouldArchive(create_zip, saved_files)
    /\ zip' = [OpenZip(zip) EXCEPT
                 !.members = @ \o ArchiveMembers(Len(saved_files), dir)]
    /\ dir' = KeepOriginals(dir, saved_files)
    /\ pc' = "Archived"
    /\ UNCHANGED <<handles, config, dir_exists, locals, returned, raised, exit_code, hist>>

\* the environment fails the archive: it cannot be opened (and is untouched),
\* or a member cannot be added and the archive keeps the members before it
ArchiveFails ==
    /\ pc = "Written"
    /\ ShouldArchive(create_zip, saved_files)
    /\ \/ UNCHANGED zip
       \/ \E k \in 0 .. (Len(saved_files) - 1) :
            zip' = [OpenZip(zip) EXCEPT !.members = @ \o ArchiveMembers(k, dir)]
    /\ raised' = "OSError"
    /\ pc' = "Crashed"
    /\ UNCHANGED <<handles, config, dir_exists, dir, locals, returned, exit_code, hist>>

\* create_zip is off or nothing was saved
SkipArchive ==
    /\ pc = "Written"
    /\ ~ShouldArchive(create_zip, saved_files)
    /\ pc' = "ArchiveSkipped"
    /\ UNCHANGED <<handles, config, fs, locals, returned, raised, exit_code, hist>>

\* return True
Return ==
    /\ pc \in {"Archived", "ArchiveSkipped"}
    /\ returned' = IF ReturnValue(saved_files) THEN "True" ELSE "False"
    /\ pc' = "Done"
    /\ UNCHANGED <<handles, config, fs, locals, raised, exit_code, hist>>

\* main: sys.exit(0 if success else 1)
ExitProcess ==
    /\ pc \in {"Done", "Failed"}
    /\ exit_code' = ExitCode(returned = "True")
    /\ pc' = "Exit"
    /\ UNCHANGED <<handles, config, fs, locals, returned, raised, hist>>

\* an exception left convert_pdf_to_images; main does not catch it
Abort ==
    /\ pc = "Crashed"
    /\ exit_code' = UncaughtExitCode
    /\ pc' = "Exit"
    /\ UNCHANGED <<handles, config, fs, locals, returned, raised, hist>>

\* the same command is run again over the filesystem the last run left
\* (a second run is followed only after a run no environment fault cut short)
Rerun ==
    /\ pc = "Exit"
    /\ raised \notin EnvFaults
    /\ pc' = "Start"
    /\ num_pages' = 0
    /\ future' = NoFutures
    /\ results' = <<>>
    /\ reported' = {}
    /\ ext' = None
    /\ saved_files' = <<>>
    /\ returned' = None
    /\ raised' = None
    /\ exit_code' = -1
    /\ arrival' = <<>>
    /\ start_dir' = dir
    /\ start_zip' = zip
    /\ rerun' = TRUE
    /\ UNCHANGED <<handles, config, fs>>

Next ==
    \/ ValidateQuality
    \/ CheckAndMkdir
    \/ LoadMetadata
    \/ Dispatch
    \/ StartCollect
    \/ \E i \in Pages(MaxPages) : WorkerStart(i)
    \/ \E i \in Pages(MaxPages) : WorkerReturn(i)
    \/ \E i \in Pages(MaxPages) : WorkerDie(i)
    \/ \E i \in Pages(MaxPages) : Collect(i)
    \/ \E i \in Pages(MaxPages) : CollectBroken(i)
    \/ Sequence
    \/ BeginWrite
    \/ WritePage
    \/ WriteFails
    \/ FinishWrite
    \/ CreateArchive
    \/ ArchiveFails
    \/ SkipArchive
    \/ Return
    \/ ExitProcess
    \/ Abort
    \/ Rerun

Spec == Init /\ [][Next]_vars

\* =============================================================== properties
\* the sort has run in the current run
AfterSequencer ==
    \/ pc \in {"Sequenced", "Writing", "Written", "Archived", "ArchiveSkipped", "Done"}
    \/ pc \in {"Crashed", "Exit"} /\ (returned = "True" \/ raised \in {"TypeError", "OSError"})

PageOf(s) == {s[j][1] : j \in 1 .. Len(s)}
StrictlyAscending(s) == \A j \in 1 .. (Len(s) - 1) : s[j][1] < s[j + 1][1]

\* the command line is accepted and the document opens
Accepted ==
    /\ quality \in MinQuality .. MaxQuality
    /\ pdf_exists
    /\ pdf_openable

\* C1: after the sort the result list is strictly ascending by page index
\* (no page index occurs twice), and sorting it again changes nothing,
\* whatever the number of workers and the order of completion.
C1_SortedAndIdempotent ==
    AfterSequencer =>
        /\ StrictlyAscending(results)
        /\ SortByPage(results) = results

\* C1 witness: the sort received at least two results out of page order.
C1_Witness ==
    /\ pc = "Sequenced"
    /\ Len(arrival) >= 2
    /\ arrival # results
    /\ StrictlyAscending(results)

RECURSIVE InOrderResults(_)
\* what the collector holds after pages 0..n-1 completed in that order
InOrderResults(n) ==
    IF n = 0 THEN <<>>
    ELSE CollectResult(InOrderResults(n - 1), ConvertPage(Task(n - 1), render[n - 1]))

RefResults == InOrderResults(doc_pages)
RefExt == ChooseExt(RefResults)
RefName(j) == FileName(RefResults[j][1], RefExt)
\* number of leading entries that carry image data
RefWritable ==
    IF \A j \in 1 .. Len(RefResults) : RefResults[j][2] # None THEN Len(RefResults)
    ELSE (CHOOSE j \in 1 .. Len(RefResults) :
            /\ RefResults[j][2] = None
            /\ \A h \in 1 .. (j - 1) : RefResults[h][2] # None) - 1

RECURSIVE RefDir(_)
\* the directory after the first k entries were written over start_dir
RefDir(k) ==
    IF k = 0 THEN start_dir
    ELSE WriteFile(RefDir(k - 1), RefName(k), RefResults[k][2])

RefPaths(k) == [j \in 1 .. k |-> JoinPath(OutputDir, RefName(j))]
RefArchive ==
    IF ShouldArchive(create_zip, RefPaths(Len(RefResults)))
    THEN [exists |-> TRUE,
          members |-> [j \in 1 .. Len(RefResults) |-> <<RefName(j), RefResults[j][2]>>]]
    ELSE start_zip

\* C3: for a fixed document, command line, per-page renderer outcome and
\* starting filesystem, a run that no environment fault cuts short ends with
\* the files, the saved-file list and the archive members of the run that
\* completes the pages one by one in index order, for every worker count and
\* every interleaving of completions.
C3_OutputIndependentOfSchedule ==
    (pc = "Exit" /\ Accepted /\ raised \notin EnvFaults) =>
        IF RefWritable = Len(RefResults)
        THEN /\ dir = RefDir(Len(RefResults))
             /\ saved_files = RefPaths(Len(RefResults))
             /\ zip = RefArchive
        ELSE /\ dir = WriteFile(RefDir(RefWritable), RefName(RefWritable + 1), EmptyBytes)
             /\ saved_files = RefPaths(RefWritable)
             /\ zip = start_zip

\* C3 witness: a run with more than one worker ended normally with at least
\* two page files and an archive of them.
C3_Witness ==
    /\ pc = "Exit"
    /\ returned = "True"
    /\ num_workers > 1
    /\ Len(saved_files) >= 2
    /\ create_zip
    /\ Len(zip.members) = Len(saved_files)

\* the pages on which the renderer fails
FailedPages == {i \in Pages(doc_pages) : render[i] # "ok"}
\* the name and content the page file of page i has to have
PageFile(i) == <<"page_", ZeroPad(Digits(i + 1), PadWidth), IF Lower(img_format) = "png" THEN "png" ELSE "jpg">>
PageBytes(i) == IF Lower(img_format) = "png" THEN PngBytes(i) ELSE JpegBytes(i, quality)
Written == {BaseName(saved_files[j]) : j \in 1 .. Len(saved_files)}

\* C4: when the renderer fails on exactly the pages of F, a run that no
\* environment fault cuts short writes page_(i+1) for every page i outside F
\* and for no page of F, and reports every page of F with number i+1.
C4_FailedPagesSkippedOthersWritten ==
    (pc = "Exit" /\ Accepted /\ raised \notin EnvFaults) =>
        /\ \A i \in Pages(doc_pages) \ FailedPages :
              /\ PageFile(i) \in Written
              /\ PageFile(i) \in DOMAIN dir
              /\ dir[PageFile(i)] = PageBytes(i)
        /\ \A i \in FailedPages : PageFile(i) \notin Written
        /\ reported = {i + 1 : i \in FailedPages}

\* the same for documents whose failures all carry a message
MessagesOnly == \A i \in Pages(doc_pages) : render[i] # "raises_empty"
FailuresWithMessageIsolated ==
    MessagesOnly => C4_FailedPagesSkippedOthersWritten

\* C5: every submitted task hands the collector one result, and a fault of
\* one task becomes a reported failure of that page only: once the parent has
\* left the collection loop every future was collected, every page whose
\* task failed is reported, and no exception of a task has ended the run.
C5_TaskFaultsIsolated ==
    (DOMAIN future # {} /\ pc \notin {"Dispatched", "Collecting"}) =>
        /\ AllCollected
        /\ \A i \in FailedPages : (i + 1) \in reported
        /\ raised \notin {"BrokenProcessPool", "TypeError"}

MemberNames == {zip.members[j][1] : j \in 1 .. Len(zip.members)}
\* files that were in the directory before the run and that the run did not write
LeftOver == DOMAIN start_dir \ Written

\* C6 as stated: the archive a run produces has as many members as the
\* output directory has files, under the same names, in ascending page order.
C6_ArchiveMatchesDirectory ==
    pc = "Archived" =>
        /\ Len(zip.members) = Cardinality(DOMAIN dir)
        /\ MemberNames = DOMAIN dir
        /\ StrictlyAscending(results)

\* C6 amended: the archive a run produces has exactly one member per file the
\* run wrote, named by the file's base name and holding the file's content,
\* in ascending page order; files that were in the directory before and that
\* the run did not write are not members, so the member count is the
\* directory's file count less the number of such files.
C6_ArchiveMatchesSavedFiles ==
    pc = "Archived" =>
        /\ zip.exists
        /\ Len(zip.members) = Len(saved_files)
        /\ \A j \in 1 .. Len(zip.members) :
              /\ zip.members[j][1] = <<"page_", ZeroPad(Digits(results[j][1] + 1), PadWidth), ext>>
              /\ zip.members[j][1] = saved_files[j][2]
              /\ zip.members[j][1] \in DOMAIN dir
              /\ zip.members[j][2] = dir[zip.members[j][1]]
        /\ StrictlyAscending(results)
        /\ MemberNames \cap LeftOver = {}
        /\ DOMAIN dir = MemberNames \cup LeftOver
        /\ Len(zip.members) = Cardinality(DOMAIN dir) - Cardinality(LeftOver)

\* C6 witness: an archive of two or more pages was produced while the
\* directory also holds a file the run did not write.
C6_Witness ==
    /\ pc = "Archived"
    /\ Len(zip.members) >= 2
    /\ LeftOver # {}
    /\ Len(zip.members) < Cardinality(DOMAIN dir)

\* C7: with a quality outside 1..100 the run never gets past main: nothing is
\* created, opened, dispatched or written, and the process exits with 1.
C7_BadQualityRejectedFirst ==
    quality \notin MinQuality .. MaxQuality =>
        /\ pc \in {"Start", "Exit"}
        /\ pc = "Exit" => exit_code = 1
        /\ future = NoFutures
        /\ num_pages = 0
        /\ results = <<>>
        /\ saved_files = <<>>
        /\ dir = start_dir
        /\ zip = start_zip
        /\ returned = None

\* C7 witness: a run with quality 0 has exited with the failure code.
C7_Witness ==
    /\ quality = MinQuality - 1
    /\ pc = "Exit"
    /\ exit_code = 1

\* C8: a run on a document without pages submits no task, writes no file,
\* leaves the archive as it was even with create_zip on, and exits with 0.
C8_EmptyDocument ==
    (doc_pages = 0 /\ Accepted) =>
        /\ DOMAIN future = {}
        /\ results = <<>>
        /\ saved_files = <<>>
        /\ dir = start_dir
        /\ zip = start_zip
        /\ pc \notin {"Archived", "Crashed", "Failed"}
        /\ pc = "Exit" => exit_code = 0

\* C8 witness: a run on an empty document with create_zip on has exited with 0.
C8_Witness ==
    /\ doc_pages = 0
    /\ create_zip
    /\ pc = "Exit"
    /\ exit_code = 0
    /\ returned = "True"

\* every page was attempted: each task delivered its result to the collector
AllAttempted == DOMAIN future = Pages(doc_pages) /\ AllCollected

C10_SecondRunChangesNothing ==
    (rerun /\ pc = "Exit" /\ raised \notin EnvFaults) =>
        /\ dir = start_dir
        /\ zip = start_zip

\* C10 witness: a second run wrote pages and an archive and ended normally.
C10_Witness ==
    /\ rerun
    /\ pc = "Exit"
    /\ returned = "True"
    /\ Len(saved_files) >= 2
    /\ zip.exists
    /\ Len(zip.members) = Len(saved_files)

\* ================================================= the writer on a long document
\* page indices around the places where the page number gains a digit
NameIndices == {0, 9, 99, 999, 1000}
\* values a caller of convert_pdf_to_images can pass as img_format
WideFormats == {"jpeg", "png", "PNG", "Png", "JPEG", "bmp"}

\* the end of the collection loop of a run on a long document of which all
\* pages but a and b failed with a message: the results of a and b arrived in
\* either order
WriterInit ==
    /\ pdf_exists = TRUE
    /\ pdf_openable = TRUE
    /\ img_format \in WideFormats
    /\ quality = MaxQuality
    /\ create_zip \in BOOLEAN
    /\ num_workers \in 1 .. MaxWorkers
    /\ \/ dir_exists = FALSE /\ dir = NoFiles /\ zip = NoArchive
       \/ dir_exists = TRUE /\ dir = UsedFiles /\ zip = UsedArchive
    /\ \E a \in NameIndices : \E b \in NameIndices :
       \E oa \in RenderOutcomes : \E ob \in RenderOutcomes :
         /\ a <= b
         /\ doc_pages = b + 1
         /\ render = [i \in Pages(b + 1) |->
                        IF i = a THEN oa ELSE IF i = b THEN ob ELSE "raises"]
         /\ reported = {i + 1 : i \in {j \in Pages(b + 1) :
                            Truthy(ConvertPage(Task(j), render[j])[4])}}
         /\ LET ra == ConvertPage(Task(a), render[a])
                rb == ConvertPage(Task(b), render[b])
            IN  results \in IF a = b
                            THEN {CollectResult(<<>>, ra)}
                            ELSE {CollectResult(CollectResult(<<>>, ra), rb),
                                  CollectResult(CollectResult(<<>>, rb), ra)}
    /\ pc = "Collecting"
    /\ handles = {}
    /\ num_pages = doc_pages
    /\ future = [i \in Pages(doc_pages) |-> "collected"]
    /\ ext = None
    /\ saved_files = <<>>
    /\ returned = None
    /\ raised = None
    /\ exit_code = -1
    /\ arrival = <<>>
    /\ start_dir = dir
    /\ start_zip = zip
    /\ rerun = FALSE

WriterNext ==
    \/ Sequence
    \/ BeginWrite
    \/ WritePage
    \/ WriteFails
    \/ FinishWrite
    \/ CreateArchive
    \/ ArchiveFails
    \/ SkipArchive
    \/ Return
    \/ ExitProcess
    \/ Abort

WriterSpec == WriterInit /\ [][WriterNext]_vars

RECURSIVE DigitsValue(_)
\* the number a digit sequence denotes
DigitsValue(d) ==
    IF d = <<>> THEN 0
    ELSE 10 * DigitsValue(SubSeq(d, 1, Len(d) - 1)) + d[Len(d)]

\* every result the write loop has written went to exactly one file of the
\* output directory, named page_NNN.<ext> where NNN is the page index plus
\* one in decimal, zero-padded to three digits and longer from 1000 on; the
\* file holds the result's bytes and no two results share a file name
NamesOneToOne ==
    /\ Len(saved_files) <= Len(results)
    /\ pc \in {"Written", "Archived", "ArchiveSkipped", "Done"}
          => Len(saved_files) = Len(results)
    /\ \A j \in 1 .. Len(saved_files) :
          LET name == saved_files[j][2]
          IN  /\ saved_files[j][1] = OutputDir
              /\ name[1] = "page_"
              /\ Len(name[2]) >= PadWidth
              /\ Len(name[2]) > PadWidth => name[2][1] # 0
              /\ DigitsValue(name[2]) = results[j][1] + 1
              /\ name[3] = ext
              /\ name \in DOMAIN dir
              /\ dir[name] = results[j][2]
              /\ \A h \in 1 .. Len(saved_files) :
                    h # j => saved_files[h] # saved_files[j]

\* pages 1 and 1001 of a document were both written and the run is done
LongDocumentWritten ==
    /\ pc = "Done"
    /\ Len(saved_files) = 2
    /\ results[1][1] = 0
    /\ results[2][1] = 1000
    /\ saved_files[1][2][2] = <<0, 0, 1>>
    /\ saved_files[2][2][2] = <<1, 0, 0, 1>>

\* ====================================================== failures before dispatch
\* C12: when the source path does not exist or the document cannot be opened,
\* the run never leaves the states before dispatch: no render task is ever
\* submitted, no result exists, no page file is written, the directory's
\* files and the archive stay as they were, the function returns False and
\* the process exits with status 1.
C12_BadSourceFailsBeforeDispatch ==
    (~pdf_exists \/ ~pdf_openable) =>
        /\ pc \in {"Start", "Init", "Opening", "Failed", "Exit"}
        /\ future = NoFutures
        /\ results = <<>>
        /\ saved_files = <<>>
        /\ dir = start_dir
        /\ zip = start_zip
        /\ raised = None
        /\ pc = "Failed" => returned = "False"
        /\ (pc = "Exit" /\ ~QualityRejected(quality))
              => returned = "False" /\ exit_code = ExitCode(FALSE)

\* C12 witness: a run on a file that exists but cannot be opened has exited
\* with status 1 after creating the output directory.
C12_Witness ==
    /\ pdf_exists
    /\ ~pdf_openable
    /\ pc = "Exit"
    /\ returned = "False"
    /\ exit_code = 1
    /\ dir_exists

\* ============================================================ the run's states
\* the steps of the run's state machine: the positions Start and Exit are the
\* process around the call, Opening is Init after the existence check and
\* Writing is Sequenced inside the write loop
RunSteps ==
    {<<"Start", "Init">>, <<"Start", "Exit">>,
     <<"Init", "Opening">>, <<"Init", "Failed">>,
     <<"Opening", "MetadataLoaded">>, <<"Opening", "Failed">>,
     <<"MetadataLoaded", "Dispatched">>,
     <<"Dispatched", "Collecting">>,
     <<"Collecting", "Sequenced">>,
     <<"Sequenced", "Writing">>,
     <<"Writing", "Written">>,
     <<"Written", "Archived">>, <<"Written", "ArchiveSkipped">>,
     <<"Archived", "Done">>, <<"ArchiveSkipped", "Done">>,
     <<"Done", "Exit">>, <<"Failed", "Exit">>,
     <<"Exit", "Start">>}

\* C13: the run moves only along Init, MetadataLoaded, Dispatched, Collecting,
\* Sequenced, Written, Archived or ArchiveSkipped, Done, with Failed entered
\* from before dispatch only: no step after dispatch leaves this path, so no
\* task failure, write failure or archive failure stops the run short of Done.
C13_RunStateMachine ==
    [][pc' # pc => <<pc, pc'>> \in RunSteps]_vars

\* ======================================================= a page write failing
\* C14: when the write of one successful page has failed, the run still ends
\* with every other successful page written to its file and with the function
\* returning: the failed write is reported and does not stop the loop.
C14_WriteFailureIsolated ==
    (pc = "Exit" /\ raised = "OSError" /\ Len(saved_files) < Len(results)) =>
        /\ returned = "True"
        /\ \A j \in 1 .. Len(results) :
              (j # Len(saved_files) + 1 /\ results[j][2] # None) =>
                  /\ FileName(results[j][1], ext) \in DOMAIN dir
                  /\ dir[FileName(results[j][1], ext)] = results[j][2]

\* ========================================================= document handles
\* C15: once a render task has produced its result, the document it opened
\* is closed, whether the task succeeded or failed; and no document is open
\* in a worker once the pool has shut down or the run was aborted.
C15_HandleReleasedBeforeResult ==
    /\ \A i \in DOMAIN future :
          future[i] \in {"done", "collected"} => i \notin handles
    /\ ~PoolOpen => handles = {}

\* the part of C15 the code does guarantee: a task that succeeded has closed
\* its document, and nothing is open after the pool is gone
SuccessfulTaskReleased ==
    /\ \A i \in DOMAIN future :
          (future[i] \in {"done", "collected"} /\ render[i] = "ok")
              => i \notin handles
    /\ ~PoolOpen => handles = {}

\* ================================================== writes after collection
\* C16: while any render task is pending or running (and as long as the pool
\* is open) no file of the directory and no archive has been touched; the
\* sort and every write happen only once all P futures have been collected
\* and the pool is shut down, so the parent process is the only writer.
C16_WritesAfterCollection ==
    /\ (PoolOpen \/ Running # {} \/ Queued # {}) =>
          /\ dir = start_dir
          /\ zip = start_zip
          /\ saved_files = <<>>
          /\ arrival = <<>>
    /\ (dir # start_dir \/ zip # start_zip \/ saved_files # <<>>
          \/ pc \in {"Sequenced", "Writing", "Written", "Archived",
                      "ArchiveSkipped", "Done"}) =>
          /\ DOMAIN future = Pages(doc_pages)
          /\ \A i \in DOMAIN future : future[i] = "collected"
          /\ ~PoolOpen
          /\ handles = {}

\* C16 witness: two workers rendered a document of several pages and the
\* parent is in the middle of the write loop.
C16_Witness ==
    /\ pc = "Writing"
    /\ num_workers >= 2
    /\ Len(results) >= 2
    /\ Len(saved_files) = 1
    /\ dir # start_dir
    /\ \A i \in DOMAIN future : future[i] = "collected"

\* ==================================================== archiving is additive
RECURSIVE DirWritten(_)
\* the directory the write loop left after its first k iterations
DirWritten(k) ==
    IF k = 0 THEN start_dir
    ELSE WriteFile(DirWritten(k - 1), BaseName(saved_files[k]), results[k][2])

\* the archive stage was entered: the archive was made, or touched, or the
\* exception of a failed archive left the function after a complete write loop
ArchiveStageEntered ==
    \/ pc = "Archived"
    \/ zip # start_zip
    \/ raised = "OSError" /\ Len(saved_files) = Len(results)

\* C17: whether the archive was completed or failed, the output directory
\* holds exactly the files the write loop left, each with the content it was
\* written with: the archive stage deletes, moves or modifies no page file.
C17_ArchiveIsAdditive ==
    ArchiveStageEntered =>
        /\ dir_exists
        /\ dir = DirWritten(Len(saved_files))
        /\ \A j \in 1 .. Len(saved_files) :
              /\ BaseName(saved_files[j]) \in DOMAIN dir
              /\ dir[BaseName(saved_files[j])] = results[j][2]

\* C17 witness: the archive failed after one member was added and the
\* process has ended; the page files are all there.
C17_Witness ==
    /\ pc = "Exit"
    /\ raised = "OSError"
    /\ Len(saved_files) >= 2
    /\ Len(saved_files) = Len(results)
    /\ zip.exists
    /\ Len(zip.members) = 1

\* ================================================================== liveness
\* the steps of the program itself: the parent process and the workers, without
\* the faults of the environment and without a second run of the command
Progress ==
    \/ ValidateQuality
    \/ CheckAndMkdir
    \/ LoadMetadata
    \/ Dispatch
    \/ StartCollect
    \/ \E i \in Pages(MaxPages) : WorkerStart(i)
    \/ \E i \in Pages(MaxPages) : WorkerReturn(i)
    \/ \E i \in Pages(MaxPages) : Collect(i)
    \/ \E i \in Pages(MaxPages) : CollectBroken(i)
    \/ Sequence
    \/ BeginWrite
    \/ WritePage
    \/ FinishWrite
    \/ CreateArchive
    \/ SkipArchive
    \/ Return
    \/ ExitProcess
    \/ Abort

\* the operating system keeps running the parent and the workers: while one
\* of them can take a step, one of them does
FairSpec == Init /\ [][Next]_vars /\ WF_vars(Progress)

\* C18: under fair scheduling every run that has dispatched its tasks and that
\* no fault of the environment cuts short (a killed worker, a failed write of
\* a file) eventually reaches Done.
C18_EventuallyDone ==
    (pc = "Dispatched") ~> (pc = "Done" \/ raised \in EnvFaults)

\* the part of C18 the code does guarantee: the collector never waits for a
\* result that will not arrive, every dispatched run leaves the collection
\* loop, sorted or with the exception of a broken pool
CollectorNeverStuck ==
    (pc = "Dispatched") ~> (pc = "Sequenced" \/ raised = "BrokenProcessPool")

\* ============================================================ the extension
\* the spellings of png among the format values
PngSpellings == {"png", "PNG", "Png"}

\* the extension the requested format has to give
WantedExt == IF img_format \in PngSpellings THEN "png" ELSE "jpg"

\* every file that was written completely carries the extension of the first
\* entry of the sorted results, and when that entry is a success it is png
\* for png in any spelling and jpg for every other format value
SavedFilesShareExtension ==
    /\ \A j \in 1 .. Len(saved_files) :
          /\ saved_files[j][2][3] = ext
          /\ saved_files[j][2][3] = results[1][3]
          /\ saved_files[j][2][3] = WantedExt
          /\ results[1][1] <= results[j][1]
    /\ (pc \in {"Writing", "Written", "Archived", "ArchiveSkipped", "Done"}
          /\ results # <<>> /\ results[1][2] # None) => ext = WantedExt

\* a run asked for PNG in capitals has written two pages, both under the
\* extension png
CapitalPngWritten ==
    /\ pc = "Done"
    /\ img_format = "PNG"
    /\ Len(saved_files) = 2
    /\ saved_files[1][2][3] = "png"
    /\ saved_files[2][2][3] = "png"
    /\ results[2][3] = "png"

\* ======================================================= one file per success
\* the saved files whose name carries the page number of page i
SavedFor(i) ==
    {j \in 1 .. Len(saved_files) :
        /\ saved_files[j][1] = OutputDir
        /\ saved_files[j][2][1] = "page_"
        /\ Len(saved_files[j][2][2]) >= PadWidth
        /\ DigitsValue(saved_files[j][2][2]) = i + 1}

\* C11: at the end of a run that no fault of the environment cut short,
\* every page i that rendered successfully is in exactly one written file,
\* named page_NNN.<ext> with NNN the decimal i + 1 padded to at least three
\* digits, holding the page's bytes; distinct pages never share a file.
C11_EverySuccessInOneFile ==
    (pc = "Exit" /\ raised \notin EnvFaults /\ num_pages = doc_pages) =>
        \A i \in DOMAIN render :
            render[i] = "ok" =>
                /\ Cardinality(SavedFor(i)) = 1
                /\ \A j \in SavedFor(i) :
                      /\ saved_files[j][2] \in DOMAIN dir
                      /\ dir[saved_files[j][2]] = PageBytes(i)
                      /\ \A h \in DOMAIN render : (h # i) => j \notin SavedFor(h)

\* the files of the output directory the current run created or changed
Touched == {n \in DOMAIN dir : n \notin DOMAIN start_dir \/ dir[n] # start_dir[n]}
\* the entries of results that hold image bytes
Successes == {j \in 1 .. Len(results) : results[j][2] # None}

\* C19: every page file a run has written carries one and the same
\* extension, the one reported by the successful result of the lowest page
\* index, and that extension is png when the requested format is png in any
\* spelling and jpg for every other format value.
C19_OneExtension ==
    \A n \in Touched :
        /\ n[3] = WantedExt
        /\ \E j \in Successes :
              /\ \A h \in Successes : results[j][1] <= results[h][1]
              /\ n[3] = results[j][3]

\* ===================================================== files of earlier runs
\* C20: a file that was in the output directory before the run and whose
\* name is not the page file of a page that rendered successfully in this run
\* is still there with its content; and as long as no page file has been
\* written, the archive an earlier run left is as it was.
C20_OnlyOwnFilesTouched ==
    /\ \A n \in DOMAIN start_dir :
          (\A i \in DOMAIN render : render[i] = "ok" => n # PageFile(i)) =>
              /\ n \in DOMAIN dir
              /\ dir[n] = start_dir[n]
    /\ saved_files = <<>> => zip = start_zip

\* the parts of C20 the code does guarantee: no file is ever removed from the
\* directory, a file that is no page file of the document keeps its content,
\* and the archive is untouched while nothing was saved
NothingRemoved ==
    /\ DOMAIN start_dir \subseteq DOMAIN dir
    /\ OtherName \in DOMAIN start_dir => dir[OtherName] = start_dir[OtherName]
    /\ saved_files = <<>> => zip = start_zip
    /\ zip.exists \/ ~start_zip.exists
====
